---------------------------- MODULE Spec2Model ----------------------------
(***************************************************************************)
(* A model of mobx-state-tree's top-level API (src/src/top-level-api.ts)   *)
(* and of the JSON-path codec appended to it (core/json-patch).             *)
(*                                                                         *)
(* Strings that the code inspects character by character (path segments,   *)
(* JSON paths) are sequences of one-character strings, so that escaping,   *)
(* splitting and joining are computed the way the code computes them.      *)
(*                                                                         *)
(* The Node behind every instance (core/node), the action machinery        *)
(* (core/action) and MobX transactions are not part of these sources; they  *)
(* are modelled from the documented behaviour.                              *)
(*                                                                         *)
(* The specifications share the variables:                                 *)
(*   SpecPath    the path codec applied to bounded inputs                   *)
(*   SpecApp     the process-wide app-state slot                            *)
(*   Spec        patches and actions applied to an instance with patch and  *)
(*               snapshot listeners                                         *)
(*   SpecRecord  a patch recorder on a mutated instance, and its replay     *)
(*   SpecAction  action middleware and the action recorder                  *)
(*   SpecStop    recorders that are stopped                                 *)
(*   SpecForest  instances attached to and detached from one another        *)
(*   SpecResolve paths resolved in such a forest                            *)
(*   SpecSnap    memoized snapshots of such a forest                        *)
(*   SpecClone   instances cloned                                           *)
(*   SpecType    unions and defaults of the type system                     *)
(***************************************************************************)
EXTENDS Integers, Sequences, FiniteSets, TLC

VARIABLES
    \* ---- path codec ----
    segments,       \* the input: a list of unescaped path segments
    joined,         \* joinJsonPath(segments), once computed
    parts,          \* splitJsonPath(joined), once computed
    pcPath,         \* "start" | "joined" | "done"
    \* ---- app-state slot ----
    appStateValue,  \* the content of the observable box `appState`
    calls,          \* the calls made on the slot so far, with their outcomes
    \* ---- the model instance A ----
    tree,           \* A's live state: [items |-> map from keys to values]
    patchSubs,      \* the patch listeners registered on A, in registration order
    snapshotSubs,   \* the snapshot listeners registered on A
    middlewares,    \* the action middlewares registered on A
    patchRecorder,  \* the recorder recordPatches(A) returned, if any
    actionRecorder, \* the recorder recordActions(A) returned, if any
    events,         \* what the last top-level call did, in order: changes,
                    \* listener and middleware invocations, method executions
    result,         \* the last top-level call and its outcome
    \* ---- a forest of nodes ----
    forest,         \* the Nodes that exist: parent link, subpath, children,
                    \* environment, memoized snapshot
    fListeners,     \* the nodes an onPatch listener is registered on
    stamp,          \* the number of snapshot objects computed so far
    fResult,        \* the last call on the forest and its outcome
    \* ---- the type system ----
    tInput,         \* the factory called and the snapshot it is given
    tOutput         \* what the call gave

pathVars == <<segments, joined, parts, pcPath>>
appVars  == <<appStateValue, calls>>
treeVars == <<tree, patchSubs, snapshotSubs, middlewares, patchRecorder,
              actionRecorder, events, result>>
forestVars == <<forest, fListeners, stamp, fResult>>
typeVars == <<tInput, tOutput>>
vars     == <<pathVars, appVars, treeVars, forestVars, typeVars>>

-----------------------------------------------------------------------------
(* Bounds *)

MaxSegLen   == 2    \* characters per path segment
MaxSegments == 2    \* segments per path
MaxCalls    == 3    \* calls on the app-state slot
MaxBatch    == 2    \* entries of one applyPatches / applyActions call
MaxRecorded == 2    \* entries a recorder holds before the model stops feeding it
MaxResolveParts == 1 \* parts of a path given to resolve
MaxRows     == 2    \* rows of a snapshot given to Factory
MaxSnapshots == 3   \* snapshot objects made before getSnapshot is no longer called
MaxClones   == 2    \* instances in the forest beyond the first ones before clone is no longer called

-----------------------------------------------------------------------------
(* Generic helpers on character sequences *)

\* All sequences over S of length at most n
SeqsUpTo(S, n) == UNION {[1..k -> S] : k \in 0..n}

\* Does pat occur in str at position i?
MatchesAt(str, pat, i) ==
    /\ i + Len(pat) - 1 <= Len(str)
    /\ \A j \in 1..Len(pat) : str[i + j - 1] = pat[j]

\* String.prototype.replace with a global literal regex: leftmost,
\* non-overlapping matches, scanned once from left to right.
RECURSIVE ReplaceFrom(_, _, _, _)
ReplaceFrom(str, pat, rep, i) ==
    IF i > Len(str) THEN << >>
    ELSE IF MatchesAt(str, pat, i)
         THEN rep \o ReplaceFrom(str, pat, rep, i + Len(pat))
         ELSE <<str[i]>> \o ReplaceFrom(str, pat, rep, i + 1)

ReplaceAll(str, pat, rep) == ReplaceFrom(str, pat, rep, 1)

\* String.prototype.split with a one-character separator: always at least
\* one piece; "".split("/") is [""].
RECURSIVE SplitOn(_, _)
SplitOn(str, sep) ==
    IF \A i \in 1..Len(str) : str[i] # sep THEN <<str>>
    ELSE LET i == CHOOSE k \in 1..Len(str) :
                      /\ str[k] = sep
                      /\ \A j \in 1..(k - 1) : str[j] # sep
         IN  <<SubSeq(str, 1, i - 1)>> \o SplitOn(SubSeq(str, i + 1, Len(str)), sep)

\* Array.prototype.join with a separator string
RECURSIVE JoinWith(_, _)
JoinWith(strs, sep) ==
    IF Len(strs) = 0 THEN << >>
    ELSE IF Len(strs) = 1 THEN strs[1]
    ELSE strs[1] \o sep \o JoinWith(Tail(strs), sep)

-----------------------------------------------------------------------------
(* The JSON-path codec *)

\* str.replace(/~/g, "~1").replace(/\//g, "~0")
escapeJsonPath(str) ==
    ReplaceAll(ReplaceAll(str, <<"~">>, <<"~", "1">>), <<"/">>, <<"~", "0">>)

\* str.replace(/~0/g, "\\").replace(/~1/g, "~")
unescapeJsonPath(str) ==
    ReplaceAll(ReplaceAll(str, <<"~", "0">>, <<"\\">>), <<"~", "1">>, <<"~">>)

joinJsonPath(path) ==
    IF Len(path) = 0 THEN << >>
    ELSE <<"/">> \o JoinWith([i \in 1..Len(path) |-> escapeJsonPath(path[i])], <<"/">>)

\* invariant(path[0] === "/") of splitJsonPath: does the call go through?
splitJsonPathOk(path) == IF Len(path) = 0 THEN TRUE ELSE path[1] = "/"

\* defined where splitJsonPathOk(path)
splitJsonPath(path) ==
    IF path = << >> THEN << >>
    ELSE LET pieces == SplitOn(SubSeq(path, 2, Len(path)), "/")
         IN  [i \in 1..Len(pieces) |-> unescapeJsonPath(pieces[i])]

\* The characters segments are drawn from
PathChars == {"/", "~", "0", "1"}

Segments == SeqsUpTo(PathChars, MaxSegLen)

NoPath == <<"?">>   \* placeholder while nothing has been computed

\* the codec's variables in the specifications that do not exercise it
IdlePath ==
    /\ segments = << >>
    /\ joined = NoPath
    /\ parts = << >>
    /\ pcPath = "idle"

JoinPath ==
    /\ pcPath = "start"
    /\ joined' = joinJsonPath(segments)
    /\ pcPath' = "joined"
    /\ UNCHANGED <<segments, parts, appVars, treeVars, forestVars, typeVars>>

SplitPath ==
    /\ pcPath = "joined"
    /\ splitJsonPathOk(joined)
    /\ parts' = splitJsonPath(joined)
    /\ pcPath' = "done"
    /\ UNCHANGED <<segments, joined, appVars, treeVars, forestVars, typeVars>>

-----------------------------------------------------------------------------
(* The process-wide app-state slot *)

Undefined == [type |-> "undefined"]

\* const appState = observable.shallowBox<any>(undefined): the box object itself
appState == [type |-> "box"]

Null == [type |-> "null"]       \* JavaScript's null
Zero == [type |-> "number", value |-> 0]    \* the number 0

\* JavaScript's ToBoolean on the values of this model: undefined, null and 0
\* are falsy, every object (a box, an instance, an environment) is truthy.
ToBoolean(v) == v \notin {Undefined, Null, Zero}

Factories    == {"Store", "Todo"}
InitialSnaps == {Undefined, [type |-> "snapshot", n |-> 7]}
Environments == {Undefined, [type |-> "env", n |-> 1]}

\* factory(initialSnapshot, environment): a new instance; id tells one
\* created object from another
factory(f, initialSnapshot, environment, id) ==
    [type        |-> "instance",
     factory     |-> f,
     snapshot    |-> IF initialSnapshot = Undefined
                     THEN [type |-> "snapshot", n |-> 0]
                     ELSE initialSnapshot,
     environment |-> environment,
     id          |-> id]

NoArgs == [factory |-> "", initialSnapshot |-> Undefined, environment |-> Undefined]

Call(op, args, before, after, raised, returned) ==
    [op |-> op, args |-> args, before |-> before, after |-> after,
     raised |-> raised, returned |-> returned]

\* the slot in the specifications that do not exercise it
IdleApp ==
    /\ appStateValue = Undefined
    /\ calls = << >>

resetAppState ==
    /\ Len(calls) < MaxCalls
    /\ appStateValue' = Undefined
    /\ calls' = Append(calls, Call("reset", NoArgs, appStateValue, Undefined, FALSE, Undefined))
    /\ UNCHANGED <<pathVars, treeVars, forestVars, typeVars>>

\* the check written like getAppState's, which lets every call through
initializeAppStateCheckInverted == ToBoolean(appState)

\* invariant(!appState, ...): the condition the invariant is given
initializeAppStateCheck == ~ToBoolean(appState)

initializeAppState ==
    /\ Len(calls) < MaxCalls
    /\ \E f \in Factories, initialSnapshot \in InitialSnaps, environment \in Environments :
         LET created == factory(f, initialSnapshot, environment, Len(calls) + 1)
             args    == [factory |-> f, initialSnapshot |-> initialSnapshot,
                         environment |-> environment]
         IN
         IF initializeAppStateCheck
         THEN /\ appStateValue' = created
              /\ calls' = Append(calls, Call("initialize", args, appStateValue, created, FALSE, Undefined))
         ELSE /\ appStateValue' = appStateValue
              /\ calls' = Append(calls, Call("initialize", args, appStateValue, appStateValue, TRUE, Undefined))
    /\ UNCHANGED <<pathVars, treeVars, forestVars, typeVars>>

\* invariant(!!appState, ...): the condition the invariant is given
getAppStateCheck == ToBoolean(appState)

getAppState ==
    /\ Len(calls) < MaxCalls
    /\ appStateValue' = appStateValue
    /\ IF getAppStateCheck
       THEN calls' = Append(calls, Call("get", NoArgs, appStateValue, appStateValue, FALSE, appStateValue))
       ELSE calls' = Append(calls, Call("get", NoArgs, appStateValue, appStateValue, TRUE, Undefined))
    /\ UNCHANGED <<pathVars, treeVars, forestVars, typeVars>>

-----------------------------------------------------------------------------
(* The model instance A                                                    *)
(*                                                                         *)
(* A is created by a factory of shape { items: map of primitives }.  Its   *)
(* Node (core/node) is reached through the top-level functions; a call is  *)
(* evaluated on a context record that carries the instance (tree and       *)
(* listener registries), what its callbacks have accumulated, and the      *)
(* events of the call in the order they happen.                            *)

ItemsField == <<"i", "t", "e", "m", "s">>

Keys == {<<"k">>, <<"/">>}      \* the keys direct mutations use
Vals == {1, 2}                  \* the primitive values stored

EmptyTree == [items |-> << >>]

\* node.snapshot: the plain value of the node and its descendants
getSnapshot(t) == [items |-> t.items]

\* Factory(snapshot): a fresh root instance with no listeners
createInstance(snapshot) == [items |-> snapshot.items]

Ctx(t, ps, ss, mw, recP, recA) ==
    [tree |-> t, patchSubs |-> ps, snapshotSubs |-> ss, middlewares |-> mw,
     patches |-> recP, actions |-> recA,
     events |-> << >>, batch |-> 0, dirty |-> FALSE,
     raised |-> FALSE, inAction |-> FALSE, ret |-> "undefined"]

\* a thrown error: it propagates, the rest of the call is skipped
raise(c) == [c EXCEPT !.raised = TRUE, !.ret = "undefined"]

\* a callback that pushes every patch twice
recordPatchesCallbackTwice(patches, patch) == Append(Append(patches, patch), patch)

\* (patch) => { recorder.patches.push(patch) }
recordPatchesCallback(patches, patch) == Append(patches, patch)

\* the patch subscribers of a node are called one after the other
RECURSIVE notifyPatchSubs(_, _, _)
notifyPatchSubs(c, subs, patch) ==
    IF Len(subs) = 0 THEN c
    ELSE LET l  == Head(subs)
             c1 == [c EXCEPT
                      !.events  = Append(@, [type |-> "patch", listener |-> l,
                                             patch |-> patch]),
                      !.patches = IF l = "recorder"
                                  THEN recordPatchesCallback(@, patch)
                                  ELSE @]
         IN  notifyPatchSubs(c1, Tail(subs), patch)

\* a patch held back: no subscriber is told
emitPatchDropped(c, patch) == c

\* Node.emitPatch for a patch of the items node: it bubbles to the root,
\* whose subscribers see it under the root-relative path
emitPatch(c, patch) ==
    notifyPatchSubs(c, c.patchSubs,
                    [patch EXCEPT !.path = joinJsonPath(<<ItemsField>>) \o @])

\* the snapshot reaction of each onSnapshot listener
RECURSIVE notifySnapshotSubs(_, _)
notifySnapshotSubs(c, subs) ==
    IF Len(subs) = 0 THEN c
    ELSE notifySnapshotSubs(
             [c EXCEPT !.events = Append(@, [type |-> "snapshot", listener |-> Head(subs),
                                             snapshot |-> getSnapshot(c.tree)])],
             Tail(subs))

\* MobX transactions nest; reactions run when the outermost one ends, and
\* only if something they observe has changed
startBatch(c) == [c EXCEPT !.batch = @ + 1]

endBatch(c) ==
    LET c1 == [c EXCEPT !.batch = @ - 1] IN
    IF c1.batch = 0 /\ c1.dirty
    THEN notifySnapshotSubs([c1 EXCEPT !.dirty = FALSE], c1.snapshotSubs)
    ELSE c1

\* items.set(key, value): one change, one patch; setting the value a key
\* already has changes nothing
mapSet(c, key, value) ==
    LET items == c.tree.items
        had   == key \in DOMAIN items
    IN  IF had /\ items[key] = value THEN c
        ELSE LET patch == [op    |-> IF had THEN "replace" ELSE "add",
                           path  |-> <<"/">> \o escapeJsonPath(key),
                           value |-> value]
                 c1 == startBatch(c)
                 c2 == [c1 EXCEPT
                          !.tree.items = [k \in DOMAIN items \cup {key} |->
                                            IF k = key THEN value ELSE items[k]],
                          !.dirty  = TRUE,
                          !.events = Append(@, [type |-> "change", key |-> key])]
             IN  endBatch(emitPatch(c2, patch))

\* items.delete(key)
mapDelete(c, key) ==
    LET items == c.tree.items IN
    IF key \notin DOMAIN items THEN c
    ELSE LET patch == [op |-> "remove", path |-> <<"/">> \o escapeJsonPath(key)]
             c1 == startBatch(c)
             c2 == [c1 EXCEPT
                      !.tree.items = [k \in DOMAIN items \ {key} |-> items[k]],
                      !.dirty  = TRUE,
                      !.events = Append(@, [type |-> "change", key |-> key])]
         IN  endBatch(emitPatch(c2, patch))

\* the items node applying a patch addressed to one of its keys
applyPatchLocally(c, key, patch) ==
    CASE patch.op = "add"     -> mapSet(c, key, patch.value)
      [] patch.op = "replace" -> IF key \in DOMAIN c.tree.items
                                 THEN mapSet(c, key, patch.value)
                                 ELSE raise(c)
      [] patch.op = "remove"  -> IF key \in DOMAIN c.tree.items
                                 THEN mapDelete(c, key)
                                 ELSE raise(c)

\* Node.applyPatch on the root: split the path, resolve the container,
\* apply there.  Only /items/<key> addresses a place a primitive can go.
nodeApplyPatch(c, patch) ==
    IF ~splitJsonPathOk(patch.path) THEN raise(c)
    ELSE LET ps == splitJsonPath(patch.path) IN
         IF Len(ps) = 2 /\ ps[1] = ItemsField
         THEN applyPatchLocally(c, ps[2], patch)
         ELSE raise(c)

\* export function applyPatch(target, patch)
applyPatch(c, patch) == nodeApplyPatch(c, patch)

\* patches.forEach(p => node.applyPatch(p)): a throw ends the loop
RECURSIVE forEachPatch(_, _)
forEachPatch(c, patches) ==
    IF Len(patches) = 0 \/ c.raised THEN c
    ELSE forEachPatch(nodeApplyPatch(c, Head(patches)), Tail(patches))

\* the loop without the transaction around it
applyPatchesUnbatched(c, patches) == forEachPatch(c, patches)

\* a loop that goes on after a rejected patch
RECURSIVE forEachPatchRegardless(_, _)
forEachPatchRegardless(c, patches) ==
    IF Len(patches) = 0 THEN c
    ELSE LET c1 == nodeApplyPatch(c, Head(patches))
         IN  forEachPatchRegardless([c1 EXCEPT !.raised = c.raised \/ c1.raised],
                                    Tail(patches))

applyPatchesRegardless(c, patches) ==
    endBatch(forEachPatchRegardless(startBatch(c), patches))

\* export function applyPatches(target, patches): the loop in runInAction
applyPatches(c, patches) == endBatch(forEachPatch(startBatch(c), patches))

-----------------------------------------------------------------------------
(* Actions and their middleware                                            *)
(*                                                                         *)
(* A's type declares three actions:                                        *)
(*   addItem(key, value)   this.items.set(key, value); returns "added"     *)
(*   removeItem(key)       this.items.delete(key); returns "removed"       *)
(*   resetItem(key)        this.removeItem(key); this.addItem(key, 1);     *)
(*                         returns "reset"                                 *)
(* and three kinds of middleware are registered with onAction:             *)
(*   "recorder"  the callback of recordActions                             *)
(*   "logger"    (action, next) => next(), as in onAction's documentation  *)
(*   "block"     returns "blocked" without calling next()                  *)

Methods == {"addItem", "removeItem", "resetItem"}

ActionCall(name, args) == [name |-> name, path |-> << >>, args |-> args]

\* a callback that records the action before and after next()
recordActionsCallbackTwice(actions, action) == Append(Append(actions, action), action)

\* (action, next) => { recorder.actions.push(action); return next() }:
\* what the push leaves in recorder.actions
recordActionsCallback(actions, action) == Append(actions, action)

RECURSIVE callAction(_, _)
RECURSIVE runMiddlewares(_, _, _)
RECURSIVE runAction(_, _)

\* the body of each action method; an action called from a method body is
\* called like any other
methodBody(c, call) ==
    CASE call.name = "addItem" ->
             [mapSet(c, call.args[1], call.args[2]) EXCEPT !.ret = "added"]
      [] call.name = "removeItem" ->
             [mapDelete(c, call.args[1]) EXCEPT !.ret = "removed"]
      [] call.name = "resetItem" ->
             LET c1 == callAction(c, ActionCall("removeItem", <<call.args[1]>>))
                 c2 == callAction(c1, ActionCall("addItem", <<call.args[1], 1>>))
             IN  [c2 EXCEPT !.ret = "reset"]

\* the method runs as one MobX action, marked as the running action
runAction(c, call) ==
    LET c1 == startBatch([c EXCEPT
                            !.inAction = TRUE,
                            !.events = Append(@, [type |-> "invoke", action |-> call])])
        c2 == methodBody(c1, call)
    IN  endBatch([c2 EXCEPT !.inAction = c.inAction])

\* the chain: each handler gets the action and next(); the innermost next()
\* executes the method
runMiddlewares(c, handlers, call) ==
    IF Len(handlers) = 0 THEN runAction(c, call)
    ELSE LET h  == Head(handlers)
             c1 == [c EXCEPT !.events = Append(@, [type |-> "middleware", id |-> h,
                                                   action |-> call])]
         IN  CASE h = "block"    -> [c1 EXCEPT !.ret = "blocked"]
               [] h = "logger"   -> runMiddlewares(c1, Tail(handlers), call)
               [] h = "recorder" ->
                      runMiddlewares(
                          [c1 EXCEPT !.actions = recordActionsCallback(@, call)],
                          Tail(handlers), call)

\* calling an action method: only a root action goes through the chain
callAction(c, call) ==
    IF c.inAction THEN runAction(c, call)
    ELSE runMiddlewares(c, c.middlewares, call)

\* Node.applyAction: resolve action.path, then call the named method there
nodeApplyAction(c, action) ==
    IF Len(action.path) # 0 \/ action.name \notin Methods THEN raise(c)
    ELSE callAction(c, action)

\* applyAction without its return statement
applyActionNoReturn(c, action) == [nodeApplyAction(c, action) EXCEPT !.ret = "undefined"]

\* export function applyAction(target, action)
applyAction(c, action) == nodeApplyAction(c, action)

\* actions.forEach(action => node.applyAction(action)): a throw ends the loop
RECURSIVE forEachAction(_, _)
forEachAction(c, actions) ==
    IF Len(actions) = 0 \/ c.raised THEN c
    ELSE forEachAction(nodeApplyAction(c, Head(actions)), Tail(actions))

\* export function applyActions(target, actions): the loop in runInAction;
\* it returns nothing
applyActions(c, actions) ==
    [endBatch(forEachAction(startBatch(c), actions)) EXCEPT !.ret = "undefined"]

-----------------------------------------------------------------------------
(* Calls on A *)

\* the instance in the specifications that do not exercise it
IdleTree ==
    /\ tree = EmptyTree
    /\ patchSubs = << >>
    /\ snapshotSubs = << >>
    /\ middlewares = << >>
    /\ patchRecorder = [status |-> "none", patches |-> << >>, base |-> getSnapshot(EmptyTree)]
    /\ actionRecorder = [status |-> "none", actions |-> << >>]
    /\ events = << >>
    /\ result = [op |-> "none"]

NoRecorder == [status |-> "none", patches |-> << >>, base |-> getSnapshot(EmptyTree)]
NoActionRecorder == [status |-> "none", actions |-> << >>]
NoResult == [op |-> "none"]

\* the patches applied from outside: to the item k, and to a place that does
\* not exist
ItemPath == joinJsonPath(<<ItemsField, <<"k">>>>)
NoSuchPath == joinJsonPath(<<<<"n", "o">>, <<"k">>>>)

PatchInputs ==
    {[op |-> "add", path |-> ItemPath, value |-> 1],
     [op |-> "add", path |-> ItemPath, value |-> 2],
     [op |-> "replace", path |-> ItemPath, value |-> 2],
     [op |-> "remove", path |-> ItemPath],
     [op |-> "add", path |-> NoSuchPath, value |-> 1]}

Here == Ctx(tree, patchSubs, snapshotSubs, middlewares,
            patchRecorder.patches, actionRecorder.actions)

\* the state after a call on A that ended in context r
Commit(r, op, args) ==
    /\ Len(r.patches) <= MaxRecorded
    /\ Len(r.actions) <= MaxRecorded
    /\ tree' = r.tree
    /\ patchRecorder' = [patchRecorder EXCEPT !.patches = r.patches]
    /\ actionRecorder' = [actionRecorder EXCEPT !.actions = r.actions]
    /\ events' = r.events
    /\ result' = [op |-> op, args |-> args, raised |-> r.raised, value |-> r.ret,
                  before |-> getSnapshot(tree), after |-> getSnapshot(r.tree),
                  nPatches |-> Len(patchRecorder.patches),
                  nActions |-> Len(actionRecorder.actions)]
    /\ UNCHANGED <<patchSubs, snapshotSubs, middlewares, pathVars, appVars, forestVars,
                   typeVars>>

\* a.items.set(key, value), called directly
SetItem ==
    \E k \in Keys, v \in Vals :
        Commit(mapSet(Here, k, v), "set", [key |-> k, value |-> v])

\* a.items.delete(key), called directly
DeleteItem ==
    \E k \in Keys : Commit(mapDelete(Here, k), "delete", [key |-> k])

ApplyPatch ==
    \E p \in PatchInputs : Commit(applyPatch(Here, p), "applyPatch", <<p>>)

\* batches are made of the patches that address the item: a replace or a
\* remove is rejected when the item is missing
BatchPatchInputs == {p \in PatchInputs : p.path = ItemPath /\ (p.op = "add" => p.value = 1)}

ApplyPatches ==
    \E ps \in SeqsUpTo(BatchPatchInputs, MaxBatch) :
        Commit(applyPatches(Here, ps), "applyPatches", ps)

\* the actions applied from outside; a direct call a.addItem(..) takes the
\* same route as applyAction from callAction on
ActionInputs ==
    {ActionCall("addItem", <<<<"k">>, 1>>),
     ActionCall("addItem", <<<<"k">>, 2>>),
     ActionCall("removeItem", <<<<"k">>>>),
     ActionCall("resetItem", <<<<"k">>>>),
     ActionCall("noSuchAction", << >>)}

ApplyAction ==
    \E a \in ActionInputs : Commit(applyAction(Here, a), "applyAction", <<a>>)

BatchActionInputs == {a \in ActionInputs : a.name # "addItem" \/ a.args[2] = 1}

ApplyActions ==
    \E as \in SeqsUpTo(BatchActionInputs, MaxBatch) :
        Commit(applyActions(Here, as), "applyActions", as)

\* a registration or disposal: no listener runs
Registered ==
    /\ events' = << >>
    /\ result' = NoResult
    /\ UNCHANGED <<tree, pathVars, appVars, forestVars, typeVars>>

Without(subs, l) == SelectSeq(subs, LAMBDA x : x # l)
Has(subs, l) == \E i \in 1..Len(subs) : subs[i] = l

PatchListeners == {"listenerA", "listenerB"}

\* onPatch(a, listener) and the disposer it returns
OnPatch ==
    /\ \E l \in PatchListeners :
          /\ ~Has(patchSubs, l)
          /\ patchSubs' = Append(patchSubs, l)
    /\ Registered
    /\ UNCHANGED <<snapshotSubs, middlewares, patchRecorder, actionRecorder>>

DisposePatch ==
    /\ \E l \in PatchListeners :
          /\ Has(patchSubs, l)
          /\ patchSubs' = Without(patchSubs, l)
    /\ Registered
    /\ UNCHANGED <<snapshotSubs, middlewares, patchRecorder, actionRecorder>>

\* onSnapshot(a, listener) and the disposer it returns
OnSnapshot ==
    /\ ~Has(snapshotSubs, "snap")
    /\ snapshotSubs' = Append(snapshotSubs, "snap")
    /\ Registered
    /\ UNCHANGED <<patchSubs, middlewares, patchRecorder, actionRecorder>>

DisposeSnapshot ==
    /\ Has(snapshotSubs, "snap")
    /\ snapshotSubs' = Without(snapshotSubs, "snap")
    /\ Registered
    /\ UNCHANGED <<patchSubs, middlewares, patchRecorder, actionRecorder>>

\* onAction(a, middleware), for the logger and the blocking middleware
OnAction ==
    /\ \E m \in {"logger", "block"} :
          /\ ~Has(middlewares, m)
          /\ middlewares' = Append(middlewares, m)
    /\ Registered
    /\ UNCHANGED <<patchSubs, snapshotSubs, patchRecorder, actionRecorder>>

\* recordActions(a): an empty recorder whose callback is registered with
\* onAction
RecordActions ==
    /\ actionRecorder.status = "none"
    /\ actionRecorder' = [status |-> "recording", actions |-> << >>]
    /\ middlewares' = Append(middlewares, "recorder")
    /\ Registered
    /\ UNCHANGED <<patchSubs, snapshotSubs, patchRecorder>>

\* recordPatches(a): an empty recorder whose callback is registered with
\* onPatch; base remembers A's snapshot at that moment
RecordPatches ==
    /\ patchRecorder.status = "none"
    /\ patchRecorder' = [status |-> "recording", patches |-> << >>,
                         base |-> getSnapshot(tree)]
    /\ patchSubs' = Append(patchSubs, "recorder")
    /\ Registered
    /\ UNCHANGED <<snapshotSubs, middlewares, actionRecorder>>

\* recorder.stop(): the disposer of the recorder's listener
StopPatchRecorder ==
    /\ patchRecorder.status = "recording"
    /\ patchRecorder' = [patchRecorder EXCEPT !.status = "stopped"]
    /\ patchSubs' = Without(patchSubs, "recorder")
    /\ Registered
    /\ UNCHANGED <<snapshotSubs, middlewares, actionRecorder>>

\* recorder.stop() of the action recorder: the disposer of its middleware
StopActionRecorder ==
    /\ actionRecorder.status = "recording"
    /\ actionRecorder' = [actionRecorder EXCEPT !.status = "stopped"]
    /\ middlewares' = Without(middlewares, "recorder")
    /\ Registered
    /\ UNCHANGED <<patchSubs, snapshotSubs, patchRecorder>>

\* recorder.replay(b), b a fresh instance made from the snapshot A had when
\* the recorder was created: applyPatches(b, recorder.patches)
ReplayPatches ==
    /\ patchRecorder.status # "none"
    /\ LET b == Ctx(createInstance(patchRecorder.base), << >>, << >>, << >>, << >>, << >>)
           r == applyPatches(b, patchRecorder.patches)
       IN  /\ events' = << >>
           /\ result' = [op |-> "replayPatches", args |-> patchRecorder.patches,
                         raised |-> r.raised, value |-> r.ret,
                         before |-> patchRecorder.base, after |-> getSnapshot(r.tree),
                         nPatches |-> Len(patchRecorder.patches),
                         nActions |-> Len(actionRecorder.actions)]
    /\ UNCHANGED <<tree, patchSubs, snapshotSubs, middlewares, patchRecorder,
                   actionRecorder, pathVars, appVars, forestVars, typeVars>>

-----------------------------------------------------------------------------
(* A forest of nodes                                                       *)
(*                                                                         *)
(* Every instance of this part is a map whose entries are primitives or    *)
(* other instances.  forest maps the identity of each Node that exists to  *)
(* its parent link, its subpath under the parent, its children, its        *)
(* environment and its memoized snapshot.  An instance and its Node are    *)
(* told apart from others by the same identity.                            *)

NoNode == 0                     \* a Node reference that is null

instance(n) == [type |-> "instance", id |-> n]     \* node.target

FKeys == {<<"a">>, <<"/">>}     \* the keys of the maps
KeyOrder == <<<<"a">>, <<"/">>>>
PrimKeys == {<<"a">>}           \* the keys primitives are stored under
FVal == 1                       \* the primitive stored

Prim(v) == [t |-> "prim", v |-> v]
Child(n) == [t |-> "node", v |-> n]

NoKids == [k \in {} |-> Prim(FVal)]
NoSnap == [stamp |-> 0, val |-> NoKids]

\* Factory(undefined, environment): a root with no entries
NewNode(environment) ==
    [parent |-> NoNode, subpath |-> << >>, kids |-> NoKids,
     environment |-> environment, valid |-> FALSE, snap |-> NoSnap]

IsChild(F, n, k) == IF k \in DOMAIN F[n].kids THEN F[n].kids[k].t = "node" ELSE FALSE

\* Node.isRoot
nodeIsRoot(F, n) == F[n].parent = NoNode

\* Node.pathParts: the subpaths of the ancestors, from the root down
RECURSIVE nodePathParts(_, _)
nodePathParts(F, n) ==
    IF F[n].parent = NoNode THEN << >>
    ELSE Append(nodePathParts(F, F[n].parent), F[n].subpath)

\* Node.path
nodePath(F, n) == joinJsonPath(nodePathParts(F, n))

\* Node.root
RECURSIVE nodeRoot(_, _)
nodeRoot(F, n) == IF F[n].parent = NoNode THEN n ELSE nodeRoot(F, F[n].parent)

\* a node and its ancestors
RECURSIVE AncestorsOrSelf(_, _)
AncestorsOrSelf(F, n) ==
    IF F[n].parent = NoNode THEN {n} ELSE {n} \cup AncestorsOrSelf(F, F[n].parent)

\* export function getParent(target): node.parent ? node.parent.target : null
getParent(F, n) == IF F[n].parent # NoNode THEN instance(F[n].parent) ELSE Null

\* export function hasParent(target): getParent(target, strict) !== null
hasParent(F, n) == getParent(F, n) # Null

\* export function getRoot(target)
getRoot(F, n) == instance(nodeRoot(F, n))

\* export function getPath(target)
getPath(F, n) == nodePath(F, n)

\* export function getPathParts(target)
getPathParts(F, n) == nodePathParts(F, n)

\* export function isRoot(target)
isRoot(F, n) == nodeIsRoot(F, n)

-----------------------------------------------------------------------------
(* Path resolution *)

Dot == <<".">>
DotDot == <<".", ".">>

\* the child Node under a key; a primitive entry has no Node
getChildNode(F, n, key) == IF IsChild(F, n, key) THEN F[n].kids[key].v ELSE NoNode

\* Node.resolvePath: walk the parts from n; NoNode when a part leads nowhere
RECURSIVE resolvePath(_, _, _)
resolvePath(F, n, pathParts) ==
    IF n = NoNode THEN NoNode
    ELSE IF Len(pathParts) = 0 THEN n
    ELSE LET s == Head(pathParts)
             next == IF s = DotDot THEN F[n].parent
                     ELSE IF s = Dot THEN n
                     ELSE getChildNode(F, n, s)
         IN  resolvePath(F, next, Tail(pathParts))

\* Node.resolve(path, failIfResolveFails): the path is split by splitJsonPath;
\* node = NoNode with raised = FALSE stands for the result undefined
nodeResolve(F, n, path, failIfResolveFails) ==
    IF ~splitJsonPathOk(path) THEN [raised |-> TRUE, node |-> NoNode]
    ELSE LET r == resolvePath(F, n, splitJsonPath(path)) IN
         IF r = NoNode
         THEN [raised |-> failIfResolveFails, node |-> NoNode]
         ELSE [raised |-> FALSE, node |-> r]

\* export function resolve(target, path)
resolve(F, n, path) ==
    LET node == nodeResolve(F, n, path, TRUE) IN
    [raised |-> node.raised,
     value  |-> IF ~node.raised /\ node.node # NoNode THEN instance(node.node)
                ELSE Undefined]

\* a tryResolve that lets the Node fail
tryResolveFailing(F, n, path) == resolve(F, n, path)

\* export function tryResolve(target, path)
tryResolve(F, n, path) ==
    LET node == nodeResolve(F, n, path, FALSE) IN
    [raised |-> node.raised,
     value  |-> IF node.raised \/ node.node = NoNode THEN Undefined
                ELSE instance(node.node)]

-----------------------------------------------------------------------------
(* Snapshots *)

\* the plain value of a node and its descendants
RECURSIVE plainSnapshot(_, _)
plainSnapshot(F, n) ==
    [k \in DOMAIN F[n].kids |->
        IF F[n].kids[k].t = "prim" THEN F[n].kids[k]
        ELSE [t |-> "object", v |-> plainSnapshot(F, F[n].kids[k].v)]]

\* a snapshot object without the identities of the objects it is made of
RECURSIVE plainOf(_)
plainOf(snap) ==
    [k \in DOMAIN snap.val |->
        IF snap.val[k].t = "prim" THEN snap.val[k]
        ELSE [t |-> "object", v |-> plainOf(snap.val[k].v)]]

\* a mutation under m drops the memoized snapshots of m and of its ancestors;
\* nothing is computed until the snapshot is read again
invalidate(F, m) ==
    LET stale == AncestorsOrSelf(F, m) IN
    [n \in DOMAIN F |->
        IF n \in stale THEN [F[n] EXCEPT !.valid = FALSE, !.snap = NoSnap] ELSE F[n]]

\* node.snapshot: the memoized object if it is up to date; otherwise a new
\* object made of the entries, the children giving their own snapshot objects.
\* st = [forest, stamp]; stamp numbers the objects made.
RECURSIVE refresh(_, _)
RECURSIVE refreshKids(_, _, _)
refreshKids(st, n, keys) ==
    IF Len(keys) = 0 THEN st
    ELSE LET st1 == IF IsChild(st.forest, n, Head(keys))
                    THEN refresh(st, st.forest[n].kids[Head(keys)].v)
                    ELSE st
         IN  refreshKids(st1, n, Tail(keys))

refresh(st, n) ==
    IF st.forest[n].valid THEN st
    ELSE LET st1 == refreshKids(st, n, KeyOrder)
             F1  == st1.forest
             obj == [stamp |-> st1.stamp + 1,
                     val   |-> [k \in DOMAIN F1[n].kids |->
                                  IF F1[n].kids[k].t = "prim" THEN F1[n].kids[k]
                                  ELSE [t |-> "object", v |-> F1[F1[n].kids[k].v].snap]]]
         IN  [forest |-> [F1 EXCEPT ![n].valid = TRUE, ![n].snap = obj],
              stamp  |-> st1.stamp + 1]

\* a node.snapshot that makes a new object at every read
nodeSnapshotAnew(F, st, n) ==
    LET r == refresh([forest |-> [F EXCEPT ![n].valid = FALSE], stamp |-> st], n)
    IN  [forest |-> r.forest, stamp |-> r.stamp, value |-> r.forest[n].snap]

\* node.snapshot, as getSnapshot(target) reads it: the memoized object, made
\* anew if it is out of date
nodeSnapshot(F, st, n) ==
    LET r == refresh([forest |-> F, stamp |-> st], n) IN
    [forest |-> r.forest, stamp |-> r.stamp, value |-> r.forest[n].snap]

-----------------------------------------------------------------------------
(* Instances made from snapshots *)

\* the identity the next instance gets
nextId(F) == Cardinality(DOMAIN F) + 1

\* factory(snapshot, environment) for the snapshot of a map: a new node for
\* the map and, key by key, for every map inside it, all of them in the
\* given environment
RECURSIVE build(_, _, _, _, _)
RECURSIVE buildKids(_, _, _, _, _)
build(F, snapshot, environment, parent, subpath) ==
    LET id == nextId(F)
        prims == {k \in DOMAIN snapshot : snapshot[k].t = "prim"}
        node == [NewNode(environment) EXCEPT !.parent = parent,
                                             !.subpath = subpath,
                                             !.kids = [k \in prims |-> snapshot[k]]]
        F1 == [m \in DOMAIN F \cup {id} |-> IF m = id THEN node ELSE F[m]]
    IN  buildKids(F1, id, snapshot, environment, KeyOrder)

buildKids(F, id, snapshot, environment, keys) ==
    IF Len(keys) = 0 THEN F
    ELSE LET k == Head(keys) IN
         IF k \in DOMAIN snapshot /\ snapshot[k].t = "object"
         THEN LET c  == nextId(F)
                  F1 == build(F, snapshot[k].v, environment, id, k)
                  F2 == [F1 EXCEPT ![id].kids = [j \in DOMAIN @ \cup {k} |->
                                                   IF j = k THEN Child(c) ELSE @[j]]]
              IN  buildKids(F2, id, snapshot, environment, Tail(keys))
         ELSE buildKids(F, id, snapshot, environment, Tail(keys))

\* export function clone(source, customEnvironment):
\* node.factory(node.snapshot, customEnvironment || node.environment); the
\* snapshot is taken by its content
clone(F, source, customEnvironment) ==
    [forest |-> build(F, plainSnapshot(F, source),
                      IF ToBoolean(customEnvironment) THEN customEnvironment
                      ELSE F[source].environment, NoNode, << >>),
     value  |-> instance(nextId(F))]

-----------------------------------------------------------------------------
(* Mutations of the forest *)

\* Node.emitPatch: the patch of a change in node m, given to the listener of
\* m and of each ancestor c, with the path from c to the changed entry
RECURSIVE bubble(_, _, _, _, _)
bubble(F, L, c, m, patch) ==
    LET from == nodePath(F, m)
        rel  == SubSeq(from, Len(nodePath(F, c)) + 1, Len(from))
        here == IF c \in L
                THEN <<[listener |-> c, patch |-> [patch EXCEPT !.path = rel \o @]]>>
                ELSE << >>
    IN  here \o (IF F[c].parent = NoNode THEN << >>
                 ELSE bubble(F, L, F[c].parent, m, patch))

Outcome(F, raised, deliveries) ==
    [forest |-> F, raised |-> raised, deliveries |-> deliveries]

\* the value a patch carries for an entry
patchValue(F, val) ==
    IF val.t = "prim" THEN val ELSE [t |-> "object", v |-> plainSnapshot(F, val.v)]

\* the entry key of m now holds val: the value it held, if a node, has lost
\* its parent; val, if a node, has m as its parent
withEntry(F, m, key, val) ==
    LET old == IF key \in DOMAIN F[m].kids THEN F[m].kids[key] ELSE Prim(FVal)
        F1  == IF old.t = "node"
               THEN [F EXCEPT ![old.v].parent = NoNode, ![old.v].subpath = << >>]
               ELSE F
        F2  == [F1 EXCEPT ![m].kids = [k \in DOMAIN @ \cup {key} |->
                                          IF k = key THEN val ELSE @[k]]]
    IN  IF val.t = "node"
        THEN [F2 EXCEPT ![val.v].parent = m, ![val.v].subpath = key]
        ELSE F2

\* the map of m setting key to val, whatever val is attached to
nodeSetUnchecked(F, L, m, key, val) ==
    IF key \in DOMAIN F[m].kids /\ F[m].kids[key] = val THEN Outcome(F, FALSE, << >>)
    ELSE LET F1 == invalidate(withEntry(F, m, key, val), m)
             patch == [op    |-> IF key \in DOMAIN F[m].kids THEN "replace" ELSE "add",
                       path  |-> <<"/">> \o escapeJsonPath(key),
                       value |-> patchValue(F1, val)]
         IN  Outcome(F1, FALSE, bubble(F1, L, m, m, patch))

\* m.set(key, val): a node that has a parent is not accepted in another place
nodeSet(F, L, m, key, val) ==
    IF key \in DOMAIN F[m].kids /\ F[m].kids[key] = val THEN Outcome(F, FALSE, << >>)
    ELSE IF val.t = "node" /\ F[val.v].parent # NoNode THEN Outcome(F, TRUE, << >>)
    ELSE nodeSetUnchecked(F, L, m, key, val)

\* Node.detach: the node leaves its parent's entries and becomes a root; a
\* root stays as it is
nodeDetach(F, L, x) ==
    IF F[x].parent = NoNode THEN Outcome(F, FALSE, << >>)
    ELSE LET p   == F[x].parent
             key == F[x].subpath
             F1  == [F EXCEPT ![p].kids = [k \in DOMAIN @ \ {key} |-> @[k]],
                              ![x].parent = NoNode,
                              ![x].subpath = << >>]
             F2  == invalidate(F1, p)
             patch == [op |-> "remove", path |-> <<"/">> \o escapeJsonPath(key)]
         IN  Outcome(F2, FALSE, bubble(F2, L, p, p, patch))

\* a detach that returns its argument and does nothing else
detachReturnOnly(F, L, x) ==
    [forest |-> F, raised |-> FALSE, deliveries |-> << >>, value |-> instance(x)]

\* export function detach(thing): getNode(thing).detach(); return thing
detach(F, L, x) ==
    LET r == nodeDetach(F, L, x) IN
    [forest |-> r.forest, raised |-> r.raised, deliveries |-> r.deliveries,
     value |-> instance(x)]
-----------------------------------------------------------------------------
(* Calls on the forest *)

Roots == {1, 2, 3}  \* the instances created at the start

NoFResult == [op |-> "none"]

\* the forest in the specifications that do not exercise it
IdleForest ==
    /\ forest = << >>
    /\ fListeners = {}
    /\ stamp = 0
    /\ fResult = NoFResult

\* the state after a mutation that ended with outcome r; x is the instance
\* attached or detached, whose parent link before the call is kept
FCommit(r, op, n, key, arg, x, value) ==
    /\ forest' = r.forest
    /\ fResult' = [op |-> op, node |-> n, key |-> key, arg |-> arg,
                   former |-> forest[x].parent, formerKey |-> forest[x].subpath,
                   raised |-> r.raised, value |-> value, changed |-> r.forest # forest,
                   deliveries |-> r.deliveries]
    /\ UNCHANGED <<fListeners, stamp, pathVars, appVars, treeVars, typeVars>>

\* m.set(key, primitive)
FSet ==
    \E m \in DOMAIN forest, k \in PrimKeys :
        FCommit(nodeSet(forest, fListeners, m, k, Prim(FVal)),
                "set", m, k, Prim(FVal), m, Undefined)

\* m.set(key, x) for an instance x; no instance is put inside itself
FAttach ==
    \E m \in DOMAIN forest, k \in FKeys, x \in DOMAIN forest :
        /\ x \notin AncestorsOrSelf(forest, m)
        /\ FCommit(nodeSet(forest, fListeners, m, k, Child(x)),
                   "attach", m, k, Child(x), x, Undefined)

\* detach(x)
FDetach ==
    \E x \in DOMAIN forest :
        LET r == detach(forest, fListeners, x) IN
        FCommit(r, "detach", x, forest[x].subpath, Undefined, x, r.value)

\* onPatch(n, listener)
FOnPatch ==
    /\ \E n \in DOMAIN forest :
          /\ n \notin fListeners
          /\ fListeners' = fListeners \cup {n}
    /\ fResult' = NoFResult
    /\ UNCHANGED <<forest, stamp, pathVars, appVars, treeVars, typeVars>>

\* getSnapshot(n): getNode(n).snapshot
FGetSnapshot ==
    /\ stamp < MaxSnapshots
    /\ \E n \in DOMAIN forest :
          LET r == nodeSnapshot(forest, stamp, n) IN
          /\ forest' = r.forest
          /\ stamp' = r.stamp
          /\ fResult' = [op |-> "snapshot", node |-> n, value |-> r.value]
    /\ UNCHANGED <<fListeners, pathVars, appVars, treeVars, typeVars>>

\* the environments given to clone: none, an object, the number 0
CloneEnvironments == {Undefined, [type |-> "env", n |-> 2], Zero}

\* Factory({a: {}}, SourceEnvironment): the instances the forest of the
\* clones starts with, a map and a map inside it
SourceSnapshot == [k \in {<<"a">>} |-> [t |-> "object", v |-> NoKids]]
SourceEnvironment == [type |-> "env", n |-> 1]
CloneRoots == DOMAIN build(<< >>, SourceSnapshot, SourceEnvironment, NoNode, << >>)

\* clone(source, customEnvironment)
FClone ==
    /\ Cardinality(DOMAIN forest) < Cardinality(CloneRoots) + MaxClones
    /\ \E source \in DOMAIN forest, customEnvironment \in CloneEnvironments :
          LET r == clone(forest, source, customEnvironment) IN
          /\ forest' = r.forest
          /\ fResult' = [op |-> "clone", node |-> source,
                         customEnvironment |-> customEnvironment,
                         value |-> r.value,
                         before |-> [forest |-> forest, fListeners |-> fListeners]]
    /\ UNCHANGED <<fListeners, stamp, pathVars, appVars, treeVars, typeVars>>

\* the paths resolved: up to MaxResolveParts parts, each ".", ".." or a key
ResolveParts == {Dot, DotDot} \cup FKeys
ResolveInputs == {joinJsonPath(ps) : ps \in SeqsUpTo(ResolveParts, MaxResolveParts)}

\* resolve(n, path) and tryResolve(n, path), one after the other
FResolve ==
    /\ \E n \in DOMAIN forest, path \in ResolveInputs :
          fResult' = [op |-> "resolve", node |-> n, path |-> path,
                      resolved |-> resolve(forest, n, path),
                      tried |-> tryResolve(forest, n, path)]
    /\ UNCHANGED <<forest, fListeners, stamp, pathVars, appVars, treeVars, typeVars>>
-----------------------------------------------------------------------------
(* The type system, as the tests of union and withDefault use it           *)

Primitive(default) == [kind |-> "primitive", default |-> default]
ObjectType(name, props, order) ==
    [kind |-> "object", name |-> name, props |-> props, order |-> order]
ArrayOf(type) == [kind |-> "array", of |-> type]

\* a withDefault that puts its default in whatever the snapshot holds
withDefaultAlways(type, defaultSnapshot) ==
    [kind |-> "always", type |-> type, default |-> defaultSnapshot]

\* types.withDefault(type, defaultSnapshot)
withDefault(type, defaultSnapshot) ==
    [kind |-> "withDefault", type |-> type, default |-> defaultSnapshot]

EmptySnapshot == [k \in {} |-> 0]

\* createFactory("Box", {width: 0, height: 0}) and the other shapes
Box == ObjectType(<<"B", "o", "x">>,
                  [width |-> Primitive(0), height |-> Primitive(0)],
                  <<"width", "height">>)
Square == ObjectType(<<"S", "q", "u", "a", "r", "e">>,
                     [width |-> Primitive(0)], <<"width">>)
Cube == ObjectType(<<"C", "u", "b", "e">>,
                   [width |-> Primitive(0), height |-> Primitive(0),
                    depth |-> Primitive(0)],
                   <<"width", "height", "depth">>)

\* createFactory({name: '', quantity: 0})
Row == ObjectType(<<"R", "o", "w">>,
                  [name |-> Primitive(""), quantity |-> Primitive(0)],
                  <<"name", "quantity">>)

\* createFactory({rows: types.withDefault(types.array(Row), [{name: 'test'}])})
Factory ==
    ObjectType(<<"F">>,
               [rows |-> withDefault(ArrayOf(Row), <<[name |-> "test"]>>)],
               <<"rows">>)

\* type.is(snapshot) of an object type whose properties are primitives, for
\* a snapshot whose values are primitives: the properties the snapshot lacks
\* get their defaults, and the keys the type does not declare are not looked at
objectIs(type, snapshot) ==
    \A k \in DOMAIN type.props \cap DOMAIN snapshot :
        type.props[k].kind = "primitive" /\ snapshot[k] \in Int

\* the live value a type makes of a snapshot
RECURSIVE create(_, _)
RECURSIVE createAbsent(_)

\* the value of a property the snapshot does not give
createAbsent(type) ==
    CASE type.kind = "primitive" -> type.default
      [] type.kind = "withDefault" -> create(type.type, type.default)
      [] type.kind = "always" -> create(type.type, type.default)
      [] type.kind = "array" -> [live |-> "array", items |-> << >>]
      [] type.kind = "object" -> create(type, EmptySnapshot)

create(type, snapshot) ==
    CASE type.kind = "primitive" -> snapshot
      [] type.kind = "withDefault" -> create(type.type, snapshot)
      [] type.kind = "always" -> create(type.type, type.default)
      [] type.kind = "array" ->
             [live  |-> "array",
              items |-> [i \in 1..Len(snapshot) |-> create(type.of, snapshot[i])]]
      [] type.kind = "object" ->
             [live  |-> "object",
              type  |-> type.name,
              state |-> [k \in DOMAIN type.props |->
                           IF k \in DOMAIN snapshot
                           THEN create(type.props[k], snapshot[k])
                           ELSE createAbsent(type.props[k])]]

\* Factory(snapshot): no snapshot is an empty one
instantiate(type, snapshot) ==
    create(type, IF snapshot = Undefined THEN EmptySnapshot ELSE snapshot)

\* getSnapshot of a live value
RECURSIVE snapshotOf(_, _)
snapshotOf(type, value) ==
    CASE type.kind = "primitive" -> value
      [] type.kind = "withDefault" -> snapshotOf(type.type, value)
      [] type.kind = "always" -> snapshotOf(type.type, value)
      [] type.kind = "array" ->
             [i \in 1..Len(value.items) |-> snapshotOf(type.of, value.items[i])]
      [] type.kind = "object" ->
             [k \in DOMAIN type.props |-> snapshotOf(type.props[k], value.state[k])]

\* the name of types.union(first, second), as the error message of the test
\* gives it for union(Square, Box): "Box | Square"
unionName(first, second) == JoinWith(<<second.name, first.name>>, <<" ", "|", " ">>)

\* types.union(first, second)(snapshot), no dispatcher given: the snapshot
\* goes to the one variant that accepts it
unionCreate(first, second, snapshot) ==
    LET applicable == SelectSeq(<<first, second>>, LAMBDA t : objectIs(t, snapshot)) IN
    IF Len(applicable) = 1
    THEN [raised |-> FALSE, type |-> applicable[1].name,
          value |-> create(applicable[1], snapshot)]
    ELSE [raised |-> TRUE, message |-> "Ambiguos snapshot", snapshot |-> snapshot,
          union |-> unionName(first, second)]

\* the snapshots given to a union: any of width, height, depth, each 1 or 2
ShapeKeys == {"width", "height", "depth"}
ShapeSnapshots == UNION {[ks -> {1, 2}] : ks \in SUBSET ShapeKeys}
Shapes == {Box, Square, Cube}

UnionInputs ==
    {in \in [kind : {"union"}, first : Shapes, second : Shapes,
              snapshot : ShapeSnapshots] : in.first # in.second}

\* the snapshots given to Factory: none, or some rows, each giving a name, a
\* quantity, both or neither
RowSnapshots ==
    {EmptySnapshot, [name |-> "snapshot"], [quantity |-> 5],
     [name |-> "snapshot", quantity |-> 5]}

FactorySnapshots ==
    {Undefined, EmptySnapshot} \cup {[rows |-> rs] : rs \in SeqsUpTo(RowSnapshots, MaxRows)}

ObjectInputs == {[kind |-> "object", snapshot |-> snap] : snap \in FactorySnapshots}

NoOutput == [done |-> FALSE]

\* the type system in the specifications that do not exercise it
IdleType ==
    /\ tInput = << >>
    /\ tOutput = << >>

\* Plane(snapshot) for a union Plane of two shapes
CreateUnion ==
    /\ tInput.kind = "union"
    /\ ~tOutput.done
    /\ tOutput' = [done |-> TRUE,
                   result |-> unionCreate(tInput.first, tInput.second, tInput.snapshot)]
    /\ UNCHANGED <<tInput, pathVars, appVars, treeVars, forestVars>>

\* getSnapshot(Factory(snapshot))
CreateObject ==
    /\ tInput.kind = "object"
    /\ ~tOutput.done
    /\ tOutput' = [done |-> TRUE,
                   snapshot |-> snapshotOf(Factory, instantiate(Factory, tInput.snapshot))]
    /\ UNCHANGED <<tInput, pathVars, appVars, treeVars, forestVars>>

-----------------------------------------------------------------------------
(* Specifications *)

\* The path codec on every list of at most MaxSegments segments of at most
\* MaxSegLen characters
InitPath ==
    /\ segments \in SeqsUpTo(Segments, MaxSegments)
    /\ joined = NoPath
    /\ parts = << >>
    /\ pcPath = "start"
    /\ IdleApp
    /\ IdleTree
    /\ IdleForest
    /\ IdleType

NextPath == JoinPath \/ SplitPath
SpecPath == InitPath /\ [][NextPath]_vars

\* The app-state slot from module load on
InitApp ==
    /\ appStateValue = Undefined
    /\ calls = << >>
    /\ IdlePath
    /\ IdleTree
    /\ IdleForest
    /\ IdleType

NextApp == resetAppState \/ initializeAppState \/ getAppState
SpecApp == InitApp /\ [][NextApp]_vars

\* One instance A, created empty, with no listener registered yet
InitTree ==
    /\ tree = createInstance(getSnapshot(EmptyTree))
    /\ patchSubs = << >>
    /\ snapshotSubs = << >>
    /\ middlewares = << >>
    /\ patchRecorder = NoRecorder
    /\ actionRecorder = NoActionRecorder
    /\ events = << >>
    /\ result = NoResult
    /\ IdlePath
    /\ IdleApp
    /\ IdleForest
    /\ IdleType

\* Mutations, patches and actions applied to A, with a patch listener and a
\* snapshot listener coming and going
Init == InitTree

Next ==
    \/ ApplyPatch
    \/ ApplyPatches
    \/ ApplyAction
    \/ ApplyActions
    \/ OnPatch
    \/ DisposePatch
    \/ OnSnapshot
    \/ DisposeSnapshot

Spec == Init /\ [][Next]_vars

\* A patch recorder on A while A is mutated, and its replay
InitRecord == InitTree

NextRecord ==
    \/ SetItem
    \/ DeleteItem
    \/ ApplyPatches
    \/ RecordPatches
    \/ ReplayPatches

SpecRecord == InitRecord /\ [][NextRecord]_vars

\* Action middleware on A
InitAction == InitTree

NextAction ==
    \/ ApplyAction
    \/ OnAction
    \/ OnPatch
    \/ RecordActions

SpecAction == InitAction /\ [][NextAction]_vars

\* A patch recorder and an action recorder on A, started and stopped while
\* actions are applied
InitStop == InitTree

NextStop ==
    \/ ApplyAction
    \/ OnAction
    \/ RecordPatches
    \/ StopPatchRecorder
    \/ RecordActions
    \/ StopActionRecorder

SpecStop == InitStop /\ [][NextStop]_vars

\* Instances attached to and detached from one another, with patch listeners
InitForest ==
    /\ forest = [n \in Roots |-> NewNode(Undefined)]
    /\ fListeners = {}
    /\ stamp = 0
    /\ fResult = NoFResult
    /\ IdlePath
    /\ IdleApp
    /\ IdleTree
    /\ IdleType

NextForest == FSet \/ FAttach \/ FDetach \/ FOnPatch
SpecForest == InitForest /\ [][NextForest]_vars

\* Paths resolved in a forest that is being rearranged
InitResolve ==
    /\ forest = [n \in Roots |-> NewNode(Undefined)]
    /\ fListeners = {}
    /\ stamp = 0
    /\ fResult = NoFResult
    /\ IdlePath
    /\ IdleApp
    /\ IdleTree
    /\ IdleType

NextResolve == FSet \/ FAttach \/ FDetach \/ FResolve
SpecResolve == InitResolve /\ [][NextResolve]_vars

\* Snapshots taken of instances that are being changed and rearranged
InitSnap ==
    /\ forest = [n \in Roots |-> NewNode(Undefined)]
    /\ fListeners = {}
    /\ stamp = 0
    /\ fResult = NoFResult
    /\ IdlePath
    /\ IdleApp
    /\ IdleTree
    /\ IdleType

NextSnap == FSet \/ FAttach \/ FDetach \/ FGetSnapshot
SpecSnap == InitSnap /\ [][NextSnap]_vars

\* Instances cloned, and changed and detached before and after
InitClone ==
    /\ forest = build(<< >>, SourceSnapshot, SourceEnvironment, NoNode, << >>)
    /\ fListeners = {}
    /\ stamp = 0
    /\ fResult = NoFResult
    /\ IdlePath
    /\ IdleApp
    /\ IdleTree
    /\ IdleType

NextClone == FSet \/ FDetach \/ FOnPatch \/ FClone
SpecClone == InitClone /\ [][NextClone]_vars

\* Factories given snapshots: a union of two shapes, and Factory with its
\* default rows
InitType ==
    /\ tInput \in UnionInputs \cup ObjectInputs
    /\ tOutput = NoOutput
    /\ IdlePath
    /\ IdleApp
    /\ IdleTree
    /\ IdleForest

NextType == CreateUnion \/ CreateObject
SpecType == InitType /\ [][NextType]_vars

-----------------------------------------------------------------------------
(* Properties of the app-state slot, checked under SpecApp *)

\* the i-th call follows an initializeAppState call with no resetAppState
\* call between the two
AfterInitialize(i) ==
    \E j \in 1..(i - 1) :
        /\ calls[j].op = "initialize"
        /\ \A k \in (j + 1)..(i - 1) : calls[k].op # "reset"

\* C1: an initializeAppState call made while the slot holds a value, or as a
\* second initializeAppState with no resetAppState in between, raises an
\* error and leaves the value stored in the slot unchanged.
C1_SecondInitializeRaises ==
    \A i \in 1..Len(calls) :
        (/\ calls[i].op = "initialize"
         /\ (ToBoolean(calls[i].before) \/ AfterInitialize(i)))
        => (calls[i].raised /\ calls[i].after = calls[i].before)

\* a second initializeAppState with no reset in between has been made, has
\* raised and has left the slot as it was
C1_Witness ==
    \E i \in 1..Len(calls) :
        /\ calls[i].op = "initialize"
        /\ AfterInitialize(i)
        /\ calls[i].raised
        /\ calls[i].after = calls[i].before

\* C2: getAppState on an empty slot raises an error, and no getAppState call
\* returns undefined to its caller.
C2_GetOnEmptySlotRaises ==
    \A i \in 1..Len(calls) :
        calls[i].op = "get" =>
            /\ (~ToBoolean(calls[i].before) => calls[i].raised)
            /\ (~calls[i].raised => calls[i].returned # Undefined)

\* C3: initializeAppState on an empty slot succeeds and stores the instance
\* it created; getAppState then returns the stored instance until
\* resetAppState empties the slot again.
C3_InitOnceResetLifecycle ==
    \A i \in 1..Len(calls) :
        /\ (calls[i].op = "initialize" /\ ~ToBoolean(calls[i].before)) =>
               /\ ~calls[i].raised
               /\ calls[i].after = factory(calls[i].args.factory,
                                           calls[i].args.initialSnapshot,
                                           calls[i].args.environment, i)
        /\ (calls[i].op = "get" /\ ToBoolean(calls[i].before)) =>
               /\ ~calls[i].raised
               /\ calls[i].returned = calls[i].before
        /\ calls[i].op = "reset" => calls[i].after = Undefined

-----------------------------------------------------------------------------
(* Properties of the path codec, checked under SpecPath *)

\* C10: splitting the joined path gives back the list of segments, and
\* unescaping an escaped segment gives back the segment.
C10_PathRoundTrip ==
    pcPath = "done" =>
        /\ parts = segments
        /\ \A i \in 1..Len(segments) :
               unescapeJsonPath(escapeJsonPath(segments[i])) = segments[i]

-----------------------------------------------------------------------------
(* Properties of patch recording and replay, checked under SpecRecord *)

\* C4: replaying the patches recorded on A since the recorder was created
\* onto a fresh instance made from A's snapshot of that moment gives an
\* instance whose snapshot equals A's current snapshot.
C4_ReplayReproducesSnapshot ==
    (result.op = "replayPatches" /\ patchRecorder.status = "recording") =>
        (~result.raised /\ result.after = getSnapshot(tree))

-----------------------------------------------------------------------------
(* Properties of listeners and of patch application, checked under Spec *)

Count(seq, Test(_)) == Len(SelectSeq(seq, Test))

IsChange(e) == e.type = "change"
IsPatch(e) == e.type = "patch"
IsSnapshot(e) == e.type = "snapshot"

\* C7: a snapshot listener is called at most once per call of applyPatch,
\* applyPatches, applyAction or applyActions (one transaction each), after
\* everything else the call does, with the snapshot the call leaves.
C7_OneSnapshotPerTransaction ==
    \A i \in 1..Len(events) :
        IsSnapshot(events[i]) =>
            /\ events[i].snapshot = getSnapshot(tree)
            /\ \A j \in (i + 1)..Len(events) :
                   /\ IsSnapshot(events[j])
                   /\ events[j].listener # events[i].listener

\* a batch of patches has changed A twice and the snapshot listener has been
\* called once
C7_Witness ==
    /\ result.op = "applyPatches"
    /\ Count(events, IsChange) >= 2
    /\ Count(events, IsSnapshot) = 1
    /\ snapshotSubs # << >>

\* C8: every change is followed at once by one patch for each registered
\* patch listener, in registration order, addressing the changed item; no
\* patch is delivered otherwise; and the snapshot notifications come after
\* all of them.
C8_PatchesDeliveredImmediately ==
    \A i \in 1..Len(events) :
        /\ IsChange(events[i]) =>
               /\ i + Len(patchSubs) <= Len(events)
               /\ \A n \in 1..Len(patchSubs) :
                      /\ IsPatch(events[i + n])
                      /\ events[i + n].listener = patchSubs[n]
                      /\ events[i + n].patch.path =
                             joinJsonPath(<<ItemsField, events[i].key>>)
        /\ IsPatch(events[i]) =>
               \E n \in 1..Len(patchSubs) :
                   /\ i - n >= 1
                   /\ IsChange(events[i - n])
                   /\ events[i].listener = patchSubs[n]
        /\ IsSnapshot(events[i]) =>
               \A j \in (i + 1)..Len(events) :
                   ~IsChange(events[j]) /\ ~IsPatch(events[j])

\* an action that calls two other actions has changed A twice while two
\* patch listeners and a snapshot listener were registered
C8_Witness ==
    /\ result.op = "applyAction"
    /\ Len(patchSubs) = 2
    /\ Count(events, IsChange) = 2
    /\ Count(events, IsPatch) = 4
    /\ Count(events, IsSnapshot) = 1

\* what the rules of add, replace and remove say of a patch applied to a
\* snapshot: a patch that addresses no place, and a replace or remove of a
\* missing item, are rejected
Rejected(snap, p) ==
    \/ p.path # ItemPath
    \/ (p.op \in {"replace", "remove"} /\ <<"k">> \notin DOMAIN snap.items)

Effect(snap, p) ==
    [items |->
        IF p.op = "remove"
        THEN [k \in DOMAIN snap.items \ {<<"k">>} |-> snap.items[k]]
        ELSE [k \in DOMAIN snap.items \cup {<<"k">>} |->
                 IF k = <<"k">> THEN p.value ELSE snap.items[k]]]

\* the snapshot after the patches that come before the first rejected one
RECURSIVE AppliedPrefix(_, _)
AppliedPrefix(snap, ps) ==
    IF Len(ps) = 0 THEN snap
    ELSE IF Rejected(snap, Head(ps)) THEN snap
    ELSE AppliedPrefix(Effect(snap, Head(ps)), Tail(ps))

RECURSIVE SomeRejected(_, _)
SomeRejected(snap, ps) ==
    IF Len(ps) = 0 THEN FALSE
    ELSE IF Rejected(snap, Head(ps)) THEN TRUE
    ELSE SomeRejected(Effect(snap, Head(ps)), Tail(ps))

IsPatchCall == result.op \in {"applyPatch", "applyPatches"}

\* C9 as stated: a rejected applyPatch or applyPatches call leaves the tree in
\* the state it had before the call.
C9_AllOrNothing ==
    (IsPatchCall /\ result.raised) =>
        (result.after = result.before /\ getSnapshot(tree) = result.before)

\* C9, amended: the error of a rejected patch propagates to the caller; a
\* rejected applyPatch leaves the tree as it was; a rejected patch of an
\* applyPatches batch and the patches after it are not applied, the patches
\* before it stay applied.
C9_RejectedPatchEndsBatch ==
    IsPatchCall =>
        /\ result.raised = SomeRejected(result.before, result.args)
        /\ result.after = AppliedPrefix(result.before, result.args)
        /\ getSnapshot(tree) = result.after
        /\ (result.op = "applyPatch" /\ result.raised) => result.after = result.before

\* a batch has been rejected after one of its patches had changed A
C9_Witness ==
    /\ result.op = "applyPatches"
    /\ result.raised
    /\ result.after # result.before
    /\ result.after = AppliedPrefix(result.before, result.args)

-----------------------------------------------------------------------------
(* Properties of action middleware, checked under SpecAction *)

IsMiddleware(e) == e.type = "middleware"
IsInvoke(e) == e.type = "invoke"
IsBlock(e) == e.type = "middleware" /\ e.id = "block"
IsRecorder(e) == e.type = "middleware" /\ e.id = "recorder"

\* C5: when a middleware returns without calling next(), nothing runs after
\* it: no later middleware, no method, no change, no patch; the tree is as
\* before and applyAction returns what the middleware returned.
C5_BlockingMiddlewareEndsChain ==
    (result.op = "applyAction" /\ Count(events, IsBlock) > 0) =>
        /\ IsBlock(events[Len(events)])
        /\ \A i \in 1..Len(events) : IsMiddleware(events[i])
        /\ ~result.raised
        /\ result.value = "blocked"
        /\ result.after = result.before
        /\ getSnapshot(tree) = result.before

\* the blocking middleware, registered before another one, has stopped an
\* addItem that would have changed A
C5_Witness ==
    /\ result.op = "applyAction"
    /\ Count(events, IsBlock) = 1
    /\ Len(middlewares) >= 2
    /\ middlewares[Len(middlewares)] # "block"
    /\ result.args[1].name = "addItem"
    /\ result.before = getSnapshot(EmptyTree)
    /\ result.value = "blocked"

\* C6: the middlewares see one applyAction call once, as the outermost
\* action, whatever actions its method calls; the action recorder gains
\* exactly the outermost action when its middleware is reached.
C6_OnlyRootActionsIntercepted ==
    result.op = "applyAction" =>
        /\ \A i \in 1..Len(events) :
               IsMiddleware(events[i]) =>
                   /\ events[i].action = result.args[1]
                   /\ \A j \in 1..Len(events) :
                          (IsMiddleware(events[j]) /\ events[j].id = events[i].id)
                              => j = i
        /\ Len(actionRecorder.actions) = result.nActions + Count(events, IsRecorder)
        /\ Count(events, IsRecorder) > 0 =>
               actionRecorder.actions[Len(actionRecorder.actions)] = result.args[1]

\* resetItem has run and has called two other actions, while the recorder
\* and the logger were registered; the recorder gained one action
C6_Witness ==
    /\ result.op = "applyAction"
    /\ result.args[1].name = "resetItem"
    /\ Count(events, IsInvoke) = 3
    /\ Count(events, IsMiddleware) = 2
    /\ Len(actionRecorder.actions) = result.nActions + 1

-----------------------------------------------------------------------------
(* Properties of attaching and detaching, checked under SpecForest *)

\* the places an instance sits in: the entries that hold it
Slots(F, x) ==
    {s \in (DOMAIN F) \X FKeys :
        IF s[2] \in DOMAIN F[s[1]].kids THEN F[s[1]].kids[s[2]] = Child(x) ELSE FALSE}

\* C11: after detach(x) on an attached x, getParent(x) is null, hasParent(x)
\* is false, isRoot(x) is true, getPath(x) is "", detach has returned x, and
\* no entry of the former parent (nor of any other node) holds x.
C11_DetachMakesRoot ==
    (fResult.op = "detach" /\ fResult.former # NoNode) =>
        LET x == fResult.node IN
        /\ ~fResult.raised
        /\ fResult.value = instance(x)
        /\ getParent(forest, x) = Null
        /\ ~hasParent(forest, x)
        /\ isRoot(forest, x)
        /\ getPath(forest, x) = << >>
        /\ fResult.key \notin DOMAIN forest[fResult.former].kids
        /\ Slots(forest, x) = {}

\* an instance that has a child of its own has been detached from its
\* parent, and is now a root that still holds its child
C11_Witness ==
    /\ fResult.op = "detach"
    /\ fResult.former # NoNode
    /\ isRoot(forest, fResult.node)
    /\ \E k \in FKeys : IsChild(forest, fResult.node, k)

\* C12: every node sits in at most one entry, the one its parent link names;
\* attaching an instance that is attached in another place is rejected and
\* changes nothing; attaching a root succeeds and makes it a child.
C12_OneParentAtATime ==
    /\ \A x \in DOMAIN forest :
           /\ Cardinality(Slots(forest, x)) <= 1
           /\ forest[x].parent = NoNode => Slots(forest, x) = {}
           /\ forest[x].parent # NoNode =>
                  Slots(forest, x) = {<<forest[x].parent, forest[x].subpath>>}
    /\ fResult.op = "attach" =>
           LET x == fResult.arg.v IN
           IF fResult.former = NoNode
           THEN /\ ~fResult.raised
                /\ forest[x].parent = fResult.node
                /\ forest[x].subpath = fResult.key
           ELSE IF fResult.former = fResult.node /\ fResult.formerKey = fResult.key
           THEN ~fResult.raised /\ ~fResult.changed
           ELSE /\ fResult.raised
                /\ ~fResult.changed
                /\ forest[x].parent = fResult.former
                /\ forest[x].subpath = fResult.formerKey

\* an instance attached under one parent has been offered to another parent,
\* which was rejected; it still sits in its one place
C12_Witness ==
    /\ fResult.op = "attach"
    /\ fResult.raised
    /\ fResult.former # NoNode
    /\ fResult.former # fResult.node
    /\ Slots(forest, fResult.arg.v) = {<<fResult.former, fResult.formerKey>>}

-----------------------------------------------------------------------------
(* Properties of path resolution, checked under SpecResolve *)

\* what walking the parts of a path from n leads to, by the rules for ".",
\* ".." and child names; NoNode when a part leads nowhere
RECURSIVE Walk(_, _, _)
Walk(F, n, ps) ==
    IF Len(ps) = 0 THEN n
    ELSE LET next == CASE Head(ps) = Dot -> n
                       [] Head(ps) = DotDot -> F[n].parent
                       [] OTHER -> IF \E c \in DOMAIN F :
                                        /\ F[c].parent = n
                                        /\ F[c].subpath = Head(ps)
                                   THEN CHOOSE c \in DOMAIN F :
                                            /\ F[c].parent = n
                                            /\ F[c].subpath = Head(ps)
                                   ELSE NoNode
         IN  IF next = NoNode THEN NoNode ELSE Walk(F, next, Tail(ps))

\* C13: when a part of the path cannot be resolved, resolve raises and
\* tryResolve returns undefined without raising; when the path can be
\* resolved, both return the instance the parts lead to.
C13_ResolveVersusTryResolve ==
    fResult.op = "resolve" =>
        LET to == Walk(forest, fResult.node, splitJsonPath(fResult.path)) IN
        IF to = NoNode
        THEN /\ fResult.resolved.raised
             /\ ~fResult.tried.raised
             /\ fResult.tried.value = Undefined
        ELSE /\ ~fResult.resolved.raised
             /\ ~fResult.tried.raised
             /\ fResult.resolved.value = instance(to)
             /\ fResult.tried.value = fResult.resolved.value

\* a path that leads nowhere has made resolve raise and tryResolve return
\* undefined, from a node whose parent and children exist
C13_Witness ==
    /\ fResult.op = "resolve"
    /\ fResult.resolved.raised
    /\ ~fResult.tried.raised
    /\ fResult.tried.value = Undefined
    /\ forest[fResult.node].parent # NoNode
    /\ \E k \in FKeys : IsChild(forest, fResult.node, k)

-----------------------------------------------------------------------------
(* Properties of the recorders, checked under SpecStop *)

DeliveredToRecorder(e) == e.type = "patch" /\ e.listener = "recorder"

\* the patches given to the recorder's listener, in order
PatchesDelivered(es) ==
    LET ds == SelectSeq(es, DeliveredToRecorder) IN [i \in 1..Len(ds) |-> ds[i].patch]

\* the actions the recorder's middleware was called with, in order
ActionsIntercepted(es) ==
    LET ms == SelectSeq(es, IsRecorder) IN [i \in 1..Len(ms) |-> ms[i].action]

\* is a blocking middleware registered before position i of the chain?
BlockedBefore(mw, i) == \E j \in 1..(i - 1) : mw[j] = "block"

\* what each action method returns
Returned(call) ==
    CASE call.name = "addItem" -> "added"
      [] call.name = "removeItem" -> "removed"
      [] call.name = "resetItem" -> "reset"

\* one step of the patch recorder
PatchRecorderStep ==
    /\ (patchRecorder.status = "none" /\ patchRecorder'.status = "recording") =>
           patchRecorder'.patches = << >>
    /\ (patchRecorder.status = "recording" /\ patchRecorder'.status = "recording") =>
           /\ patchRecorder'.patches = patchRecorder.patches \o PatchesDelivered(events')
           /\ Len(PatchesDelivered(events')) = Count(events', IsChange)
    /\ patchRecorder'.status # "recording" =>
           /\ patchRecorder'.patches = patchRecorder.patches
           /\ PatchesDelivered(events') = << >>

\* one step of the action recorder
ActionRecorderStep ==
    /\ (actionRecorder.status = "none" /\ actionRecorder'.status = "recording") =>
           actionRecorder'.actions = << >>
    /\ (actionRecorder.status = "recording" /\ actionRecorder'.status = "recording") =>
           /\ actionRecorder'.actions = actionRecorder.actions \o ActionsIntercepted(events')
           /\ (result'.op = "applyAction" /\ ~result'.raised) =>
                  \A i \in 1..Len(middlewares) :
                      (middlewares[i] = "recorder" /\ ~BlockedBefore(middlewares, i)) =>
                          ActionsIntercepted(events') = result'.args
    /\ actionRecorder'.status # "recording" =>
           /\ actionRecorder'.actions = actionRecorder.actions
           /\ ActionsIntercepted(events') = << >>
    /\ \A i \in 1..Len(events') :
           IsRecorder(events'[i]) =>
               /\ i < Len(events')
               /\ events'[i + 1].action = events'[i].action
               /\ (\A j \in 1..Len(middlewares) : middlewares[j] # "block") =>
                      /\ Count(events', IsInvoke) >= 1
                      /\ result'.value = Returned(events'[i].action)

\* C14: a recorder holds exactly what its listener was given between its
\* creation and its stop(), once each and in order: the patches of every
\* change of the subject, the root actions applied to it; nothing is appended
\* after stop(); and the action recorder's middleware is always followed
\* by the next link of the chain, the action's return value passing through.
C14_RecordersHoldWhatWasEmitted == [][PatchRecorderStep /\ ActionRecorderStep]_vars

\* the patch recorder, stopped with a patch in it, has not been given the
\* change the last call made, while the action recorder has gained the call
C14_Witness ==
    /\ patchRecorder.status = "stopped"
    /\ Len(patchRecorder.patches) >= 1
    /\ result.op = "applyAction"
    /\ Count(events, IsChange) >= 1
    /\ Len(patchRecorder.patches) = result.nPatches
    /\ actionRecorder.status = "recording"
    /\ Len(actionRecorder.actions) = result.nActions + 1

-----------------------------------------------------------------------------
(* Properties of the type system, checked under SpecType *)

\* C15: for the union of Box{width, height} and Square{width} without a
\* dispatcher, a snapshot whose keys more than one variant declares (such as
\* {width: 2}) is refused with the ambiguity error naming the variants
\* joined by " | "; a snapshot whose keys are exactly the fields of one
\* variant and fit no other (such as {width: 2, height: 1}) is instantiated
\* as that variant.
C15_UnionWithoutDispatcher ==
    (tOutput.done /\ tInput.kind = "union"
        /\ {tInput.first, tInput.second} = {Box, Square}) =>
        LET S == tInput.snapshot
            r == tOutput.result
            fitting == {t \in {Box, Square} : DOMAIN S \subseteq DOMAIN t.props}
            exact == {t \in fitting : DOMAIN S = DOMAIN t.props}
        IN  /\ Cardinality(fitting) > 1 =>
                   /\ r.raised
                   /\ r.message = "Ambiguos snapshot"
                   /\ r.snapshot = S
                   /\ r.union \in {JoinWith(<<Box.name, Square.name>>, <<" ", "|", " ">>),
                                   JoinWith(<<Square.name, Box.name>>, <<" ", "|", " ">>)}
            /\ (Cardinality(fitting) = 1 /\ exact = fitting) =>
                   /\ ~r.raised
                   /\ \A t \in exact : r.type = t.name

\* C16: the snapshot of Factory(S) has, for every key S gives, the value S
\* gives, and for every key S lacks, the declared default: the rows of S if S
\* has rows, the default rows otherwise; in each row the name and quantity
\* given, '' and 0 for the ones not given.
C16_DefaultsFillOnlyAbsentKeys ==
    (tOutput.done /\ tInput.kind = "object") =>
        LET S == IF tInput.snapshot = Undefined THEN EmptySnapshot ELSE tInput.snapshot
            out == tOutput.snapshot
            given == IF "rows" \in DOMAIN S THEN S.rows ELSE <<[name |-> "test"]>>
        IN  /\ DOMAIN out = {"rows"}
            /\ Len(out.rows) = Len(given)
            /\ \A i \in 1..Len(given) :
                   /\ DOMAIN out.rows[i] = {"name", "quantity"}
                   /\ out.rows[i].name =
                          IF "name" \in DOMAIN given[i] THEN given[i].name ELSE ""
                   /\ out.rows[i].quantity =
                          IF "quantity" \in DOMAIN given[i] THEN given[i].quantity ELSE 0

\* Factory has been given rows, one of them with a name and no quantity:
\* the row has kept its name and has got the quantity 0
C16_Witness ==
    /\ tOutput.done
    /\ tInput.kind = "object"
    /\ tInput.snapshot # Undefined
    /\ "rows" \in DOMAIN tInput.snapshot
    /\ \E i \in 1..Len(tInput.snapshot.rows) :
           /\ DOMAIN tInput.snapshot.rows[i] = {"name"}
           /\ tOutput.snapshot.rows[i] = [name |-> "snapshot", quantity |-> 0]

-----------------------------------------------------------------------------
(* Properties of snapshots, checked under SpecSnap *)

\* the node whose entries a mutation has changed
Mutated(res) == IF res.op = "detach" THEN res.former ELSE res.node

\* every memoized snapshot is the snapshot of the present state of its node,
\* and is one of the objects made so far
SnapshotsAreCurrent(F, st) ==
    \A n \in DOMAIN F :
        /\ F[n].snap.stamp <= st
        /\ F[n].valid => plainOf(F[n].snap) = plainSnapshot(F, n)

\* getSnapshot(n) has returned: the memoized object if n had one, an object
\* made in this call otherwise; it holds the present state of n, its entries
\* for children are the children's own snapshot objects, and every snapshot
\* that was memoized before the call is memoized still
GetSnapshotStep ==
    LET n == fResult'.node
        value == fResult'.value
    IN  /\ forest'[n].valid
        /\ value = forest'[n].snap
        /\ plainOf(value) = plainSnapshot(forest, n)
        /\ IF forest[n].valid
           THEN value = forest[n].snap /\ stamp' = stamp
           ELSE value.stamp > stamp
        /\ \A m \in DOMAIN forest :
               /\ forest'[m].kids = forest[m].kids
               /\ forest'[m].parent = forest[m].parent
               /\ forest[m].valid => forest'[m].valid /\ forest'[m].snap = forest[m].snap
        /\ \A k \in DOMAIN forest[n].kids :
               forest[n].kids[k].t = "node" =>
                   value.val[k].v = forest'[forest[n].kids[k].v].snap

\* a mutation has been asked for: if it changed anything, the changed node
\* and its ancestors have no memoized snapshot left; every other node has
\* the one it had
MutationStep ==
    LET chain == IF fResult'.changed
                 THEN AncestorsOrSelf(forest', Mutated(fResult'))
                 ELSE {}
    IN  \A a \in DOMAIN forest :
            IF a \in chain THEN ~forest'[a].valid
            ELSE /\ forest'[a].valid = forest[a].valid
                 /\ forest'[a].snap = forest[a].snap

\* C17: snapshots are memoized, shared and never stale.  A getSnapshot call
\* on a node whose subtree has not been mutated since its last snapshot
\* returns the identical object; a mutation leaves the mutated node and all
\* its ancestors without a memoized snapshot, so that their next getSnapshot
\* returns a new object holding the mutated state, and leaves the snapshot
\* object of every other node as it was, which the new objects embed.
C17_SnapshotsMemoizedAndShared ==
    [][/\ fResult'.op = "snapshot" => GetSnapshotStep
       /\ fResult'.op \in {"set", "attach", "detach"} => MutationStep
       /\ SnapshotsAreCurrent(forest', stamp')]_vars

\* a node with a child under each key has given a new snapshot that was made
\* right after a new one of the child under "a", and that embeds the older
\* object of the child under "/"; more objects have been made than there are
\* nodes, so a mutation came between two snapshots
C17_Witness ==
    /\ fResult.op = "snapshot"
    /\ IsChild(forest, fResult.node, <<"a">>)
    /\ IsChild(forest, fResult.node, <<"/">>)
    /\ LET x == forest[fResult.node].kids[<<"a">>].v
           y == forest[fResult.node].kids[<<"/">>].v
       IN  /\ forest[x].valid
           /\ forest[y].valid
           /\ fResult.value.val[<<"/">>].v = forest[y].snap
           /\ forest[y].snap.stamp + 1 < forest[x].snap.stamp
           /\ fResult.value.stamp = forest[x].snap.stamp + 1
           /\ fResult.value.stamp > Cardinality(DOMAIN forest)

-----------------------------------------------------------------------------
(* Properties of paths in the forest, checked under SpecForest *)

\* C18: whatever has been attached, detached and set, the path of every
\* node x is the join of its path parts, x is a root exactly when its path is
\* "" and its parent is null, and resolving the path of x from the root of
\* x gives x.
C18_PathLeadsBackToNode ==
    \A x \in DOMAIN forest :
        /\ getPath(forest, x) = joinJsonPath(getPathParts(forest, x))
        /\ isRoot(forest, x) <=>
               (getPath(forest, x) = << >> /\ getParent(forest, x) = Null)
        /\ resolve(forest, nodeRoot(forest, x), getPath(forest, x)) =
               [raised |-> FALSE, value |-> instance(x)]

\* the parts that lead from the node c down to the entry key of the node m
RelativeParts(F, c, m, key) ==
    Append(SubSeq(nodePathParts(F, m), Len(nodePathParts(F, c)) + 1,
                  Len(nodePathParts(F, m))), key)

\* C19: a mutation of a node gives exactly one patch to the listener of the
\* mutated node and of each of its ancestors, and none to any other
\* listener; the path of the patch a listener gets is the path of the
\* mutated entry relative to the listener's node, so that splitting it, as
\* applyPatch on that node does, names the mutated entry.
C19_PatchesBubbleWithRelativePaths ==
    fResult.op \in {"set", "attach", "detach"} =>
        IF ~fResult.changed THEN fResult.deliveries = << >>
        ELSE LET m == Mutated(fResult)
                 heard == fListeners \cap AncestorsOrSelf(forest, m)
                 ds == fResult.deliveries
             IN  /\ {ds[i].listener : i \in DOMAIN ds} = heard
                 /\ Len(ds) = Cardinality(heard)
                 /\ \A i \in DOMAIN ds :
                        LET rel == RelativeParts(forest, ds[i].listener, m, fResult.key)
                        IN  /\ ds[i].patch.path = joinJsonPath(rel)
                            /\ splitJsonPath(ds[i].patch.path) = rel

-----------------------------------------------------------------------------
(* Properties of clone, checked under SpecClone *)

\* a node and its descendants
RECURSIVE Subtree(_, _)
Subtree(F, n) ==
    {n} \cup UNION {Subtree(F, F[n].kids[k].v) :
                       k \in {j \in DOMAIN F[n].kids : F[n].kids[j].t = "node"}}

\* C20: clone(source, env) has made a new root, with path "", none of whose
\* nodes existed before, and whose snapshot is the snapshot of source; the
\* nodes that existed, their parent links and the listeners are as they were;
\* the environment of the clone is env if one was passed, the environment of
\* source otherwise.
C20_CloneIsNewRootInGivenEnvironment ==
    fResult.op = "clone" =>
        LET c == fResult.value.id
            source == fResult.node
            was == fResult.before.forest
        IN  /\ isRoot(forest, c)
            /\ getPath(forest, c) = << >>
            /\ Subtree(forest, c) \cap DOMAIN was = {}
            /\ plainSnapshot(forest, c) = plainSnapshot(was, source)
            /\ \A n \in DOMAIN was :
                   /\ forest[n].parent = was[n].parent
                   /\ forest[n].subpath = was[n].subpath
                   /\ forest[n].kids = was[n].kids
                   /\ forest[n].environment = was[n].environment
            /\ fListeners = fResult.before.fListeners
            /\ \A n \in Subtree(forest, c) :
                   forest[n].environment =
                       IF fResult.customEnvironment # Undefined
                       THEN fResult.customEnvironment
                       ELSE was[source].environment

=============================================================================
